---- MODULE Spec2Model ----
(***************************************************************************)
(* A model of tractseg/data/DLDABG_standalone.py: the spatial augmentation *)
(* engine augment_spatial with its peak-rotation corrector                  *)
(* (rotate_peaks, rotate_peaks_all), the adapter SpatialTransform_Custom    *)
(* and the standalone transform augment_linear_downsampling_scipy.          *)
(*                                                                         *)
(* Numbers.  Every real number of the program (voxel values, coordinates,   *)
(* angles, scale factors, probabilities) is a fixed-point integer with      *)
(* three decimal digits: the integer k stands for k / FP.  Angles are in    *)
(* radians, so 1000 is one radian.  zoom_range of the downsampling          *)
(* transform is kept in units of 1e-6 (the size of its epsilon).            *)
(*                                                                         *)
(* Arrays.  An array is a record [shape, v]: shape is the tuple of its      *)
(* extents and v lists its values in row-major order, as numpy lays them    *)
(* out; index tuples are 0-based.                                           *)
(*                                                                         *)
(* Random sources.  np.random is one global generator: the variable rng     *)
(* holds its state and every draw advances it.  Python's random, which only *)
(* the downsampling transform draws from, is kept with that transform's     *)
(* call (unit.rnd).                                                         *)
(***************************************************************************)
EXTENDS Integers, Sequences, FiniteSets, TLC

\* ------------------------------------------------------------------ bounds

\* samples in a batch
MaxSamples == 2
\* peak groups in a batch handed to rotate_peaks_all on its own (3*G channels)
MaxGroups == 4
\* states of the random source: a draw is one of RngMod equidistant points of [0, 1)
RngMod == 8

\* ------------------------------------------------------------ fixed point

FP == 10 * 10 * 10

\* x / d rounded to the nearest integer (halves up)
RDiv(x, d) == (2 * x + d) \div (2 * d)

FMul(a, b) == RDiv(a * b, FP)

Min(a, b) == IF a < b THEN a ELSE b

Max(a, b) == IF a > b THEN a ELSE b

\* numpy's round of a fixed-point number to an integer: halves go to the even side
RoundHalfEven(x) ==
    LET fl == x \div FP
        r  == x - fl * FP
    IN  IF 2 * r < FP THEN fl
        ELSE IF 2 * r > FP THEN fl + 1
        ELSE IF fl % 2 = 0 THEN fl ELSE fl + 1

\* ----------------------------------------------------------- trigonometry

PiMilli == 3142

\* cos and sin of an angle in [0, pi/2] by their Taylor polynomials
CosQ(x) ==
    LET x2 == FMul(x, x)
        x4 == FMul(x2, x2)
        x6 == FMul(x4, x2)
        x8 == FMul(x4, x4)
    IN  FP - RDiv(x2, 2) + RDiv(x4, 24) - RDiv(x6, 720) + RDiv(x8, 40320)

SinQ(x) ==
    LET x2 == FMul(x, x)
        x3 == FMul(x2, x)
        x5 == FMul(x3, x2)
        x7 == FMul(x5, x2)
        x9 == FMul(x7, x2)
    IN  x - RDiv(x3, 6) + RDiv(x5, 120) - RDiv(x7, 5040) + RDiv(x9, 362880)

\* the angle brought into [0, 2 pi)
Wrap(a) == a % (2 * PiMilli)

Cos(a) ==
    LET w == Wrap(a)
    IN  IF w = 0 THEN FP
        ELSE IF 2 * w <= PiMilli THEN CosQ(w)
        ELSE IF w <= PiMilli THEN -CosQ(PiMilli - w)
        ELSE IF 2 * w <= 3 * PiMilli THEN -CosQ(w - PiMilli)
        ELSE CosQ(2 * PiMilli - w)

Sin(a) ==
    LET w == Wrap(a)
    IN  IF w = 0 THEN 0
        ELSE IF 2 * w <= PiMilli THEN SinQ(w)
        ELSE IF w <= PiMilli THEN SinQ(PiMilli - w)
        ELSE IF 2 * w <= 3 * PiMilli THEN -SinQ(w - PiMilli)
        ELSE -SinQ(2 * PiMilli - w)

\* ------------------------------------------------------------------ arrays

RECURSIVE Prod(_)
Prod(shape) == IF shape = <<>> THEN 1 ELSE Head(shape) * Prod(Tail(shape))

\* the sequence s with every element worked out (TLC keeps [i \in 1 .. n |-> e]
\* unevaluated and works e out again at every use)
Eager(s) == s \o <<>>

Drop(s, k) == SubSeq(s, k + 1, Len(s))

Take(s, k) == SubSeq(s, 1, k)

\* the row-major position of index tuple p in an array of the given shape
\* (Horner's rule over the axes k .. Len(shape))
RECURSIVE LinearFrom(_, _, _, _)
LinearFrom(shape, p, k, acc) ==
    IF k > Len(shape) THEN acc ELSE LinearFrom(shape, p, k + 1, acc * shape[k] + p[k])

Linear(shape, p) == LinearFrom(shape, p, 1, 0)

\* the distance in row-major order between neighbours along each axis
Strides(shape) == Eager([i \in 1 .. Len(shape) |-> Prod(Drop(shape, i))])

\* the index tuple at row-major position f, st the strides of the shape
UnlinearBy(shape, st, f) == Eager([i \in 1 .. Len(shape) |-> (f \div st[i]) % shape[i]])

\* the array of the given shape holding f(p) at index tuple p; v lists the values
\* in row-major order
Arr(shape, f(_)) ==
    LET st == Strides(shape)
    IN  [shape |-> shape,
         v |-> Eager([i \in 1 .. Prod(shape) |-> f(UnlinearBy(shape, st, i - 1))])]

\* a[p]
Get(a, p) == a.v[Linear(a.shape, p) + 1]

\* np.zeros(shape)
Zeros(shape) == [shape |-> shape, v |-> Eager([i \in 1 .. Prod(shape) |-> 0])]

\* a[prefix]: the sub-array under the leading indices prefix, a contiguous
\* stretch of the row-major values
At(a, prefix) ==
    LET rest == Drop(a.shape, Len(prefix))
        size == Prod(rest)
        off  == Linear(Take(a.shape, Len(prefix)), prefix) * size
    IN  [shape |-> rest, v |-> SubSeq(a.v, off + 1, off + size)]

\* the bounds of a[lo:hi] on the first axis (numpy clips the slice to the extent)
SliceLo(a, lo) == Min(lo, Head(a.shape))

SliceHi(a, lo, hi) == Max(SliceLo(a, lo), Min(hi, Head(a.shape)))

\* a[lo:hi] on the first axis
Slice0(a, lo, hi) ==
    LET l    == SliceLo(a, lo)
        h    == SliceHi(a, lo, hi)
        size == Prod(Tail(a.shape))
    IN  [shape |-> <<h - l>> \o Tail(a.shape), v |-> SubSeq(a.v, l * size + 1, h * size)]

\* the shape of src once the leading extents numpy drops on assignment are gone
RECURSIVE StripTo(_, _)
StripTo(shape, k) ==
    IF Len(shape) > k /\ Head(shape) = 1 THEN StripTo(Tail(shape), k) ELSE shape

\* numpy's rule for target[...] = src: src broadcasts to the target's shape
Assignable(tshape, sshape) ==
    LET ss  == StripTo(sshape, Len(tshape))
        off == Len(tshape) - Len(ss)
    IN  /\ off >= 0
        /\ \A j \in 1 .. Len(ss) : ss[j] = 1 \/ ss[j] = tshape[off + j]

\* the values target[...] = src stores, for an assignable src
Broadcast(tshape, src) ==
    LET ss   == StripTo(src.shape, Len(tshape))
        off  == Len(tshape) - Len(ss)
        lead == [j \in 1 .. (Len(src.shape) - Len(ss)) |-> 0]
    IN  IF ss = tshape THEN [shape |-> tshape, v |-> src.v]
        ELSE Arr(tshape,
                 LAMBDA p :
                   Get(src, lead \o [j \in 1 .. Len(ss) |-> IF ss[j] = 1 THEN 0 ELSE p[off + j]]))

RECURSIVE Flat(_)
\* the values of the arrays of a sequence, one array after the other
Flat(arrays) == IF arrays = <<>> THEN <<>> ELSE Head(arrays).v \o Flat(Tail(arrays))

\* the array of the given shape whose sub-arrays along the first axis are arrays
Stack(shape, arrays) == [shape |-> shape, v |-> Flat(arrays)]

\* Python's None where an array is optional
None == [shape |-> <<-1>>, v |-> <<>>]

IsNone(a) == a.shape = <<-1>>

\* a with a[prefix] = sub (sub already of the shape of a[prefix])
SetAt(a, prefix, sub) ==
    LET size == Prod(sub.shape)
        off  == Linear(Take(a.shape, Len(prefix)), prefix) * size
    IN  [shape |-> a.shape,
         v |-> SubSeq(a.v, 1, off) \o sub.v \o SubSeq(a.v, off + size + 1, Len(a.v))]

\* a with a[lo:hi] = sub on the first axis (sub of the shape of a[lo:hi])
SetSlice0(a, lo, hi, sub) ==
    LET l    == SliceLo(a, lo)
        h    == SliceHi(a, lo, hi)
        size == Prod(Tail(a.shape))
    IN  [shape |-> a.shape,
         v |-> SubSeq(a.v, 1, l * size) \o sub.v \o SubSeq(a.v, h * size + 1, Len(a.v))]

\* ----------------------------------------------------------- random source

\* the generator's next state
RngNext(r) == (5 * r + 3) % RngMod

\* the number in [0, 1) the generator hands out in state r (random_sample)
RngU(r) == (r * FP) \div RngMod

RECURSIVE RngAdv(_, _)
\* the generator's state after k draws
RngAdv(r, k) == IF k = 0 THEN r ELSE RngAdv(RngNext(r), k - 1)

\* np.random.uniform(lo, hi) = lo + (hi - lo) * random_sample()
Uniform(r, lo, hi) == lo + FMul(hi - lo, RngU(r))

\* np.random.randint(lo, hi), lo < hi: an integer of [lo, hi)
RandInt(r, lo, hi) == lo + ((hi - lo) * RngU(r)) \div FP

\* ---------------------------------------------- coordinate mesh primitives

\* the coordinate of output voxel p along axis d (1-based) in a coordinate field
Coord(coords, d, p) == Get(coords, <<d - 1>> \o p)

\* create_zero_centered_coordinate_mesh(shape): (dim, *shape), axis d holding
\* i - (shape[d] - 1) / 2
create_zero_centered_coordinate_mesh(shape) ==
    Arr(<<Len(shape)>> \o shape,
        LAMBDA q : Tail(q)[Head(q) + 1] * FP - ((shape[Head(q) + 1] - 1) * FP) \div 2)

RECURSIVE SumOver(_, _)
SumOver(S, f) ==
    IF S = {} THEN 0
    ELSE LET x == CHOOSE y \in S : TRUE IN f[x] + SumOver(S \ {x}, f)

\* the weight of one axis of a Gaussian kernel far wider than the array
GaussWeight(sigma) == RDiv(399 * FP, sigma)

RECURSIVE GaussNorm(_, _)
GaussNorm(sigma, n) == IF n = 0 THEN FP ELSE FMul(GaussWeight(sigma), GaussNorm(sigma, n - 1))

\* elastic_deform_coordinates(coords, alpha, sigma): per axis one field of uniform
\* noise in [-1, 1) (one draw per voxel), smoothed by a Gaussian of width sigma
\* (zero outside the array), times alpha, added to the coordinates.  With sigma
\* far above the extents the kernel is flat over the array.
ElasticOffset(r, patch, sigma, alpha, d) ==
    LET P     == Prod(patch)
        noise == [f \in 0 .. (P - 1) |-> 2 * RngU(RngAdv(r, (d - 1) * P + f)) - FP]
    IN  FMul(FMul(SumOver(0 .. (P - 1), noise), GaussNorm(sigma, Len(patch))), alpha)

elastic_deform_coordinates(coords, alpha, sigma, r) ==
    LET patch   == Tail(coords.shape)
        offsets == Eager([d \in 1 .. Head(coords.shape) |-> ElasticOffset(r, patch, sigma, alpha, d)])
    IN  Arr(coords.shape, LAMBDA q : Get(coords, q) + offsets[Head(q) + 1])

\* the draws elastic_deform_coordinates takes
ElasticDraws(coords) == Prod(coords.shape)

Identity3 == <<<<FP, 0, 0>>, <<0, FP, 0>>, <<0, 0, FP>>>>

\* np.dot of two square matrices
MatMul(A, B) ==
    Eager([i \in 1 .. Len(A) |->
             Eager([j \in 1 .. Len(A) |->
                      LET term == [k \in 1 .. Len(A) |-> FMul(A[i][k], B[k][j])]
                      IN  SumOver(1 .. Len(A), term)])])

create_matrix_rotation_x_3d(angle, matrix) ==
    MatMul(matrix, <<<<FP, 0, 0>>,
                     <<0, Cos(angle), -Sin(angle)>>,
                     <<0, Sin(angle), Cos(angle)>>>>)

create_matrix_rotation_y_3d(angle, matrix) ==
    MatMul(matrix, <<<<Cos(angle), 0, Sin(angle)>>,
                     <<0, FP, 0>>,
                     <<-Sin(angle), 0, Cos(angle)>>>>)

create_matrix_rotation_z_3d(angle, matrix) ==
    MatMul(matrix, <<<<Cos(angle), -Sin(angle), 0>>,
                     <<Sin(angle), Cos(angle), 0>>,
                     <<0, 0, FP>>>>)

create_matrix_rotation_2d(angle) ==
    <<<<Cos(angle), -Sin(angle)>>, <<Sin(angle), Cos(angle)>>>>

\* np.dot(a.reshape(k, -1).transpose(), rot).transpose().reshape(a.shape) for an
\* array a of k leading rows and a k x k matrix rot: every k-vector v becomes v . rot
DotRows(a, rot) ==
    Arr(a.shape,
        LAMBDA q :
          LET term == [k \in 1 .. Len(rot) |-> FMul(Get(a, <<k - 1>> \o Tail(q)), rot[k][Head(q) + 1])]
          IN  SumOver(1 .. Len(rot), term))

rotate_coords_3d(coords, angle_x, angle_y, angle_z) ==
    DotRows(coords,
            create_matrix_rotation_z_3d(angle_z,
              create_matrix_rotation_y_3d(angle_y,
                create_matrix_rotation_x_3d(angle_x, Identity3))))

\* defined for a mesh of two rows only: np.dot refuses other shapes
rotate_coords_2d(coords, angle) == DotRows(coords, create_matrix_rotation_2d(angle))

\* scale_coords(coords, scale) for a scalar scale
scale_coords(coords, sc) == Arr(coords.shape, LAMBDA q : FMul(Get(coords, q), sc))

\* ------------------------------------------------------------- resampling

\* scipy's treatment of a coordinate outside [0, len - 1]: "nearest" clamps it;
\* "constant" marks the voxel as outside (-1 here)
MapCoordinate(c, len, mode) ==
    IF mode = "nearest" THEN Max(0, Min(c, (len - 1) * FP))
    ELSE IF c < 0 \/ c > (len - 1) * FP THEN -1 ELSE c

RECURSIVE Linear1(_, _, _, _)
\* multilinear interpolation of img at the (mapped) coordinates m, axes d.. left
Linear1(img, m, prefix, d) ==
    IF d > Len(m) THEN Get(img, prefix)
    ELSE LET lo == m[d] \div FP
             t  == m[d] - lo * FP
             hi == Min(lo + 1, img.shape[d] - 1)
         IN  IF t = 0 THEN Linear1(img, m, Append(prefix, lo), d + 1)
             ELSE FMul(FP - t, Linear1(img, m, Append(prefix, lo), d + 1))
                  + FMul(t, Linear1(img, m, Append(prefix, hi), d + 1))

\* scipy.ndimage.map_coordinates(img, coords, order, mode, cval) for order 0
\* (the voxel at floor(c + 0.5)) and order 1 (multilinear)
map_coordinates(img, coords, order, mode, cval) ==
    LET rank == Len(img.shape)
    IN  Arr(Tail(coords.shape),
            LAMBDA p :
              LET m == Eager([d \in 1 .. rank |->
                                MapCoordinate(Coord(coords, d, p), img.shape[d], mode)])
              IN  IF \E d \in 1 .. rank : m[d] = -1 THEN cval
                  ELSE IF order = 0 THEN Get(img, [d \in 1 .. rank |-> (m[d] + FP \div 2) \div FP])
                  ELSE Linear1(img, m, <<>>, 1))

\* np.unique(img)
Unique(img) == {img.v[i] : i \in 1 .. Prod(img.shape)}

\* interpolate_img(img, coords, order, mode, cval, is_seg): a label image with
\* order > 0 is resampled label by label (the indicator of each label, the greater
\* label winning where several reach 0.5, 0 where none does); anything else goes
\* through map_coordinates as it is
interpolate_img(img, coords, order, mode, cval, is_seg) ==
    IF is_seg /\ order # 0
    THEN LET labels == Unique(img)
             res    == [c \in labels |->
                          map_coordinates(Arr(img.shape, LAMBDA p : IF Get(img, p) = c THEN FP ELSE 0),
                                          coords, order, mode, cval)] @@ <<>>
         IN  Arr(Tail(coords.shape),
                 LAMBDA p :
                   LET hit == {c \in labels : 2 * Get(res[c], p) >= FP}
                   IN  IF hit = {} THEN 0 ELSE CHOOSE c \in hit : \A e \in hit : e <= c)
    ELSE map_coordinates(img, coords, order, mode, cval)

\* scipy.ndimage.zoom(img, z, order): the output has round(extent * z) voxels per
\* axis and output voxel i reads the input at i * (extent - 1) / (out - 1)
ZoomShape(img, z) == [d \in 1 .. Len(img.shape) |-> RoundHalfEven(img.shape[d] * z)]

zoom(img, z, order) ==
    LET rank == Len(img.shape)
        out  == ZoomShape(img, z)
        grid == Arr(<<rank>> \o out,
                    LAMBDA q :
                      LET d == Head(q) + 1
                      IN  IF out[d] > 1
                          THEN (Tail(q)[d] * (img.shape[d] - 1) * FP) \div (out[d] - 1)
                          ELSE 0)
    IN  map_coordinates(img, grid, order, "constant", 0)

\* map_coordinates accepts the coordinate array only with one row per axis of img
CoordsFit(img, coords) == Head(coords.shape) = Len(img.shape)

\* ------------------------------------------------------------------- crops

\* get_lbs_for_center_crop(crop_size, data_shape), sp the spatial extents
get_lbs_for_center_crop(crop_size, sp) ==
    [i \in 1 .. Len(sp) |-> (sp[i] - crop_size[i]) \div 2]

\* get_lbs_for_random_crop(crop_size, data_shape, margins): one randint per axis
\* that has room, the centred bound for the others; RandomCropDraws counts the draws
HasRoom(crop_size, sp, margins, i) == sp[i] - crop_size[i] - margins[i] > margins[i]

RandomCropDraws(crop_size, sp, margins, k) ==
    Cardinality({i \in 1 .. k : HasRoom(crop_size, sp, margins, i)})

get_lbs_for_random_crop(crop_size, sp, margins, r) ==
    [i \in 1 .. Len(sp) |->
       IF HasRoom(crop_size, sp, margins, i)
       THEN RandInt(RngAdv(r, RandomCropDraws(crop_size, sp, margins, i - 1)),
                    margins[i], sp[i] - crop_size[i] - margins[i])
       ELSE (sp[i] - crop_size[i]) \div 2]

\* the window of a batch a of shape (b, c, *sp) with lower bounds lbs and extents
\* crop_size: voxels of the window outside a are padded with 0
Window(a, lbs, crop_size) ==
    LET sp == Drop(a.shape, 2)
    IN  Arr(Take(a.shape, 2) \o crop_size,
            LAMBDA q :
              LET src == [i \in 1 .. Len(sp) |-> q[i + 2] + lbs[i]]
              IN  IF \A i \in 1 .. Len(sp) : src[i] >= 0 /\ src[i] < sp[i]
                  THEN Get(a, Take(q, 2) \o src) ELSE 0)

\* crop(data, seg, crop_size, margins, crop_type) of crop_and_pad_augmentations for
\* a batch of one sample: the same lower bounds cut data and seg.  It asserts that crop_size has one extent per spatial axis.
CropFits(data, crop_size) == Len(crop_size) = Len(data.shape) - 2

CropLbs(data, crop_size, margins, crop_type, r) ==
    IF crop_type = "center" THEN get_lbs_for_center_crop(crop_size, Drop(data.shape, 2))
    ELSE get_lbs_for_random_crop(crop_size, Drop(data.shape, 2), margins, r)

crop(data, seg, crop_size, margins, crop_type, r) ==
    LET lbs == CropLbs(data, crop_size, margins, crop_type, r)
    IN  [d |-> Window(data, lbs, crop_size),
         s |-> IF IsNone(seg) THEN None ELSE Window(seg, lbs, crop_size),
         lbs |-> lbs]

CropDraws(data, crop_size, margins, crop_type) ==
    IF crop_type = "center" THEN 0
    ELSE RandomCropDraws(crop_size, Drop(data.shape, 2), margins, Len(data.shape) - 2)

\* random_crop(data, seg, crop_size, margins)
random_crop_aug(data, seg, crop_size, margins, r) ==
    crop(data, seg, crop_size, margins, "random", r)

\* center_crop(data, crop_size, seg)
center_crop_aug(data, crop_size, seg) ==
    crop(data, seg, crop_size, [i \in 1 .. Len(crop_size) |-> 0], "center", 0)

\* -------------------------------------------------- peak-rotation corrector

\* rotate_peaks(peaks, angle_x, angle_y, angle_z): reshape(3, -1) needs a size
\* that is a positive multiple of 3
CanReshape3(shape) == Prod(shape) > 0 /\ Prod(shape) % 3 = 0

\* the rotation matrix of rotate_peaks: identity . Rx . Ry . Rz
PeakMatrix(angle_x, angle_y, angle_z) ==
    create_matrix_rotation_z_3d(angle_z,
      create_matrix_rotation_y_3d(angle_y,
        create_matrix_rotation_x_3d(angle_x, Identity3)))

\* peaks.reshape(3, -1).transpose() . rot_matrix, transposed and reshaped back:
\* row j of the result is sum over k of row k times rot_matrix[k][j], the rows
\* being the thirds of the flattened array
rotate_peaks(peaks, angle_x, angle_y, angle_z) ==
    LET m   == Prod(peaks.shape) \div 3
        rot == PeakMatrix(angle_x, angle_y, angle_z)
    IN  Arr(peaks.shape,
            LAMBDA p :
              LET f    == Linear(peaks.shape, p)
                  term == [k \in 1 .. 3 |->
                             FMul(peaks.v[(k - 1) * m + (f % m) + 1],
                                  rot[k][(f \div m) + 1])]
              IN  SumOver(1 .. 3, term))

\* the groups rotate_peaks_all works through: for i in range(3)
PeakGroups(data) == 0 .. 2

\* rotate_peaks_all raises (ValueError of reshape) when one of its slices cannot
\* be reshaped to three rows
PeaksRaise(data) ==
    \E i \in PeakGroups(data) :
       ~CanReshape3(<<SliceHi(data, 3 * i, 3 * i + 3) - SliceLo(data, 3 * i)>> \o Tail(data.shape))

RECURSIVE PeaksFrom(_, _, _, _, _, _)
\* lines 275-277: the rounds i, i + 1, ... of the loop on peaks_rot
PeaksFrom(data, peaks_rot, i, angle_x, angle_y, angle_z) ==
    IF i \notin PeakGroups(data) THEN peaks_rot
    ELSE PeaksFrom(data,
                   SetSlice0(peaks_rot, 3 * i, 3 * i + 3,
                             rotate_peaks(Slice0(data, 3 * i, 3 * i + 3), angle_x, angle_y, angle_z)),
                   i + 1, angle_x, angle_y, angle_z)

\* rotate_peaks_all(data, angle_x, angle_y, angle_z): peaks_rot starts as zeros
\* and receives the rotated slice [3i, 3i + 3) for every i
rotate_peaks_all(data, angle_x, angle_y, angle_z) ==
    PeaksFrom(data, Zeros(data.shape), 0, angle_x, angle_y, angle_z)

\* ------------------------------------------------------------------- state

VARIABLES
    pc,               \* where the running call stands ("idle": no call)
    cfg,              \* the options of the transform (SpatialTransform_Custom.__init__)
    data,             \* the input data batch (n, c, *spatial)
    seg,              \* the input segmentation batch, or None
    rng,              \* the state of the random source
    patch_size,       \* augment_spatial's patch_size
    dist,             \* patch_center_dist_from_border as a list (line 302)
    data_result,      \* augment_spatial's data_result
    seg_result,       \* augment_spatial's seg_result
    sample_id,        \* the loop variable of line 304
    coords,           \* the coordinate mesh of the current sample
    modified_coords,  \* line 306
    err,              \* the exception the call ended with ("none": none)
    ret,              \* what the call returned (None before it returns)
    h,                \* history of the current sample: what was drawn and applied
    first,            \* what a caller comparing two calls keeps of the first one
    unit              \* a function called on its own: its arguments and outcome

vars == <<pc, cfg, data, seg, rng, patch_size, dist, data_result, seg_result,
          sample_id, coords, modified_coords, err, ret, h, first, unit>>

\* ------------------------------------------------------------------ inputs

\* an input data batch: values 0..4
GenData(pattern, shape) ==
    Arr(shape, LAMBDA q : (((pattern + 2) * Linear(shape, q) + pattern) % 5) * FP)

\* an input segmentation batch: labels 1..3 (pattern 0) or 0..2 (pattern 1)
GenSeg(pattern, shape) ==
    Arr(shape, LAMBDA q : ((((pattern + 1) * Linear(shape, q) + 1) % 3) + 1 - (pattern % 2)) * FP)

\* the defaults of augment_spatial's signature (lines 280-285); order_data is 1
\* here where the default is 3, map_coordinates being modelled for orders 0 and 1
DefaultCfg ==
    [patch_size |-> <<>>, patch_size_is_None |-> FALSE,
     patch_center_dist_from_border |-> 30 ,
     do_elastic_deform |-> TRUE, alpha |-> <<0, 1000 * FP>>, sigma |-> <<10 * FP, 13 * FP>>,
     do_rotation |-> TRUE, angle_x |-> <<0, 2 * PiMilli>>, angle_y |-> <<0, 2 * PiMilli>>,
     angle_z |-> <<0, 2 * PiMilli>>,
     do_scale |-> TRUE, scale |-> <<750, 1250>>,
     border_mode_data |-> "nearest", border_cval_data |-> 0, order_data |-> 1,
     border_mode_seg |-> "constant", border_cval_seg |-> 0, order_seg |-> 0,
     random_crop |-> TRUE,
     p_el_per_sample |-> FP, p_scale_per_sample |-> FP, p_rot_per_sample |-> FP]

\* the history of a call: what was drawn and applied for the current sample, and
\* in paths the path every finished sample took
NoHistory ==
    [draws |-> <<>>, rotated |-> FALSE, applied |-> <<0, 0, 0>>, corrected |-> FALSE,
     peak |-> <<0, 0, 0>>, path |-> "none", fields |-> {}, lbs |-> {}, sc |-> <<>>,
     recentred |-> FALSE, paths |-> <<>>, rots |-> <<>>]

NoUnit ==
    [op |-> "none", arg |-> None, angles |-> <<0, 0, 0>>, zoom_range |-> <<0, 0>>, rnd |-> 0,
     out |-> None, err |-> "none"]

NoFirst ==
    [on |-> FALSE, seed |-> 0, data |-> None, seg |-> None, paths |-> <<>>, rots |-> <<>>]

Idle(r) ==
    /\ pc = "idle"
    /\ cfg = DefaultCfg
    /\ data = None
    /\ seg = None
    /\ rng = r
    /\ patch_size = <<>>
    /\ dist = <<>>
    /\ data_result = None
    /\ seg_result = None
    /\ sample_id = 0
    /\ coords = None
    /\ modified_coords = FALSE
    /\ err = "none"
    /\ ret = [data |-> None, seg |-> None]
    /\ h = NoHistory
    /\ first = NoFirst
    /\ unit = NoUnit

Init == \E r \in 0 .. (RngMod - 1) : Idle(r)

\* ------------------------------------------- augment_spatial, step by step

\* lines 286-299: the result arrays take patch_size[0], [1] and, unless dim is 2,
\* patch_size[2]; a patch_size without that entry ends the call in an IndexError
AllocRaises(patch) == Len(patch) # 2 /\ Len(patch) < 3

\* the result allocated like the input, np.zeros(data.shape), whatever patch_size
ResultShapeOfInput(a, patch) == a.shape

ResultShape(a, patch) ==
    IF Len(patch) = 2 THEN <<a.shape[1], a.shape[2], patch[1], patch[2]>>
    ELSE <<a.shape[1], a.shape[2], patch[1], patch[2], patch[3]>>

\* lines 308-312
ElasticStep(c, co, r) ==
    LET r1 == RngNext(r)
        r2 == RngNext(r1)
        r3 == RngNext(r2)
        a  == Uniform(r1, c.alpha[1], c.alpha[2])
        s  == Uniform(r2, c.sigma[1], c.sigma[2])
    IN  IF RngU(r) < c.p_el_per_sample /\ c.do_elastic_deform
        THEN [ran |-> TRUE, coords |-> elastic_deform_coordinates(co, a, s, r3),
              rng |-> RngAdv(r3, ElasticDraws(co)), draws |-> <<<<"a", 0>>, <<"s", 0>>>>]
        ELSE [ran |-> FALSE, coords |-> co, rng |-> r1, draws |-> <<>>]

\* lines 319-331: an angle range with equal bounds is taken as it is, any other
\* is drawn from
AngleOf(range, r) == IF range[1] = range[2] THEN range[1] ELSE Uniform(r, range[1], range[2])

\* a draw taken for every angle range, the ranges of equal bounds included
AngleRngDrawn(range, r) == RngNext(r)

\* the generator after lines 319-322: a range of equal bounds takes no draw
AngleRng(range, r) == IF range[1] = range[2] THEN r ELSE RngNext(r)

\* lines 318-335
RotationStep(c, co, dim, r) ==
    LET r1  == RngNext(r)
        a_x == AngleOf(c.angle_x, r1)
        r2  == AngleRng(c.angle_x, r1)
        a_y == AngleOf(c.angle_y, r2)
        r3  == AngleRng(c.angle_y, r2)
        a_z == AngleOf(c.angle_z, r3)
        r4  == AngleRng(c.angle_z, r3)
    IN  IF RngU(r) < c.p_rot_per_sample /\ c.do_rotation
        THEN IF dim = 3
             THEN [ran |-> TRUE, err |-> "none", coords |-> rotate_coords_3d(co, a_x, a_y, a_z),
                   rng |-> r4, applied |-> <<a_x, a_y, a_z>>, draws |-> <<<<"a_x", 0>>, <<"a_y", 0>>, <<"a_z", 0>>>>]
             ELSE IF Head(co.shape) = 2
             THEN [ran |-> TRUE, err |-> "none", coords |-> rotate_coords_2d(co, a_x),
                   rng |-> r2, applied |-> <<a_x, 0, 0>>, draws |-> <<<<"a_x", 0>>>>]
             ELSE [ran |-> TRUE, err |-> "ValueError", coords |-> co,
                   rng |-> r2, applied |-> <<a_x, 0, 0>>, draws |-> <<<<"a_x", 0>>>>]
        ELSE [ran |-> FALSE, err |-> "none", coords |-> co, rng |-> r1,
              applied |-> <<0, 0, 0>>, draws |-> <<>>]

\* lines 338-341
ScaleFactor(c, coin, r) ==
    IF coin < FP \div 2 /\ c.scale[1] < FP
    THEN Uniform(r, c.scale[1], FP)
    ELSE Uniform(r, Max(c.scale[1], FP), c.scale[2])

\* lines 337-343
ScaleStep(c, co, r) ==
    LET r1 == RngNext(r)
        r2 == RngNext(r1)
        sc == ScaleFactor(c, RngU(r1), r2)
    IN  IF RngU(r) < c.p_scale_per_sample /\ c.do_scale
        THEN [ran |-> TRUE, coords |-> scale_coords(co, sc), rng |-> RngNext(r2),
              sc |-> <<sc>>, draws |-> <<<<"sc", 0>>>>]
        ELSE [ran |-> FALSE, coords |-> co, rng |-> r1, sc |-> <<>>, draws |-> <<>>]

\* lines 348-352: the centre along axis d (1-based), r the generator's state
Centre(c, d, dat, dst, r) ==
    IF c.random_crop
    THEN Uniform(r, dst[d] * FP, (dat.shape[d + 2] - dst[d]) * FP)
    ELSE RoundHalfEven((dat.shape[d + 2] * FP) \div 2) * FP

\* lines 347-353: coords[d] += ctr for every axis, one draw per axis when the
\* centre is random
Recentre(c, co, dim, dat, dst, r) ==
    LET ctr == Eager([d \in 1 .. dim |->
                        Centre(c, d, dat, dst, IF c.random_crop THEN RngAdv(r, d - 1) ELSE r)])
    IN  Arr(co.shape, LAMBDA q : Get(co, q) + ctr[Head(q) + 1])

RecentreRng(c, dim, r) == IF c.random_crop THEN RngAdv(r, dim) ELSE r

CentreDraws(c, dim) == IF c.random_crop THEN [d \in 1 .. dim |-> <<"ctr", d - 1>>] ELSE <<>>

\* the coordinate field line 355 resamples the data channels through: coords
DataField(field) == field

\* the seg channels resampled through a mesh of their own, twice as wide
SegFieldApart(field) == scale_coords(field, 2 * FP)

\* the coordinate field line 359 resamples the seg channels through: coords
SegField(field) == field

\* line 355: how a data channel is resampled
DataPolicy(c) ==
    [order |-> c.order_data, mode |-> c.border_mode_data, cval |-> c.border_cval_data,
     is_seg |-> FALSE]

\* the seg channels resampled as if they were data channels
SegPolicyOfData(c) ==
    [order |-> c.order_data, mode |-> c.border_mode_data, cval |-> c.border_cval_data,
     is_seg |-> FALSE]

\* lines 359-361: how a seg channel is resampled
SegPolicy(c) ==
    [order |-> c.order_seg, mode |-> c.border_mode_seg, cval |-> c.border_cval_seg,
     is_seg |-> TRUE]

\* lines 354-361 for one batch a (data or seg): every channel of sample s goes
\* through interpolate_img and into result[s, channel]
ResampleErr(a, s, field, tshape) ==
    IF a.shape[2] = 0 THEN "none"
    ELSE IF ~CoordsFit(At(a, <<s, 0>>), field) THEN "RuntimeError"
    ELSE IF ~Assignable(tshape, Tail(field.shape)) THEN "ValueError"
    ELSE "none"

ResampleAll(a, s, field, tshape, how) ==
    LET res == Eager([k \in 1 .. a.shape[2] |->
                        Broadcast(tshape, interpolate_img(At(a, <<s, k - 1>>), field, how.order,
                                                          how.mode, how.cval, how.is_seg))])
    IN  Stack(<<a.shape[2]>> \o tshape, res)

\* lines 346-361
ResampleStep(c, co, dim, dat, sg, dst, s, tshape, r) ==
    LET field == Recentre(c, co, dim, dat, dst, r)
        e1    == ResampleErr(dat, s, DataField(field), tshape)
        e2    == IF IsNone(sg) THEN "none" ELSE ResampleErr(sg, s, SegField(field), tshape)
        e     == IF dim > Len(dat.shape) - 2 THEN "IndexError"
                 ELSE IF e1 # "none" THEN e1 ELSE e2
    IN  IF e # "none"
        THEN [err |-> e, d |-> None, s |-> None, coords |-> co, rng |-> r, fields |-> {},
              draws |-> <<>>]
        ELSE [err |-> "none",
              d |-> ResampleAll(dat, s, DataField(field), tshape, DataPolicy(c)),
              s |-> IF IsNone(sg) THEN None
                    ELSE ResampleAll(sg, s, SegField(field), tshape, SegPolicy(c)),
              coords |-> field, rng |-> RecentreRng(c, dim, r),
              fields |-> {DataField(field)} \cup (IF IsNone(sg) THEN {} ELSE {SegField(field)}),
              draws |-> CentreDraws(c, dim)]

\* line 368
Margin(patch, dst, dim) == [d \in 1 .. dim |-> dst[d] - patch[d] \div 2]

\* lines 363-374: the slice of one sample is cropped, at random or centred, and
\* its only sample stored
CropStep(c, patch, dim, dat, sg, dst, s, tshape, r) ==
    LET d1  == Slice0(dat, s, s + 1)
        s1  == IF IsNone(sg) THEN None ELSE Slice0(sg, s, s + 1)
        got == IF c.random_crop
               THEN random_crop_aug(d1, s1, patch, Margin(patch, dst, dim), r)
               ELSE center_crop_aug(d1, patch, s1)
        n   == IF c.random_crop THEN CropDraws(d1, patch, Margin(patch, dst, dim), "random") ELSE 0
    IN  IF ~CropFits(d1, patch)
        THEN [err |-> "AssertionError", d |-> None, s |-> None, rng |-> r, lbs |-> {},
              draws |-> <<>>]
        ELSE IF \/ ~Assignable(tshape, Tail(got.d.shape))
                \/ ~IsNone(sg) /\ ~Assignable(<<sg.shape[2]>> \o Tail(tshape), Tail(got.s.shape))
        THEN [err |-> "ValueError", d |-> None, s |-> None, rng |-> RngAdv(r, n), lbs |-> {},
              draws |-> <<>>]
        ELSE [err |-> "none",
              d |-> Broadcast(tshape, At(got.d, <<0>>)),
              s |-> IF IsNone(sg) THEN None ELSE Broadcast(<<sg.shape[2]>> \o Tail(tshape), At(got.s, <<0>>)),
              rng |-> RngAdv(r, n), lbs |-> {got.lbs}, draws |-> <<<<"lbs", 0>>>>]

\* line 378: the angles handed to rotate_peaks_all
CorrectorAngles(hist) == <<1 * FP, 0, 0>>

\* lines 376-378
PeakStep(res, s, hist) ==
    LET cur == At(res, <<s>>)
        ang == CorrectorAngles(hist)
    IN  IF PeaksRaise(cur)
        THEN [err |-> "ValueError", res |-> res, peak |-> ang]
        ELSE [err |-> "none",
              res |-> SetAt(res, <<s>>, rotate_peaks_all(cur, ang[1], ang[2], ang[3])),
              peak |-> ang]

\* ------------------------------------------------------------- the actions

Dim == Len(patch_size)

Raise(e) ==
    /\ pc' = "raised"
    /\ err' = e

\* SpatialTransform_Custom.__call__, lines 459-473: the patch size is the
\* transform's, or the data's spatial shape when the transform has none; the call
\* of augment_spatial follows.  c are the transform's options, dat and sg the
\* batch of the data_dict.
CallOf(c, dat, sg) ==
    /\ pc = "idle"
    /\ cfg' = c
    /\ data' = dat
    /\ seg' = sg
    /\ IF c.patch_size_is_None /\ Len(dat.shape) \notin {4, 5}
       THEN Raise("ValueError") /\ patch_size' = <<>>
       ELSE /\ pc' = "alloc"
            /\ err' = "none"
            /\ patch_size' = IF c.patch_size_is_None THEN Drop(dat.shape, 2) ELSE c.patch_size
    /\ first' = [NoFirst EXCEPT !.seed = rng]
    /\ UNCHANGED <<rng, dist, data_result, seg_result, sample_id, coords, modified_coords,
                   ret, h, unit>>

\* lines 286-302
Alloc ==
    /\ pc = "alloc"
    /\ IF AllocRaises(patch_size)
       THEN Raise("IndexError") /\ UNCHANGED <<data_result, seg_result, dist>>
       ELSE /\ pc' = "mesh"
            /\ seg_result' = IF IsNone(seg) THEN None ELSE Zeros(ResultShape(seg, patch_size))
            /\ data_result' = Zeros(ResultShape(data, patch_size))
            /\ dist' = [d \in 1 .. Dim |-> cfg.patch_center_dist_from_border]
            /\ UNCHANGED err
    /\ sample_id' = 0
    /\ UNCHANGED <<cfg, data, seg, rng, patch_size, coords, modified_coords, ret, h, first, unit>>

\* lines 304-306
BuildMesh ==
    /\ pc = "mesh"
    /\ sample_id < data.shape[1]
    /\ coords' = create_zero_centered_coordinate_mesh(patch_size)
    /\ modified_coords' = FALSE
    /\ h' = [NoHistory EXCEPT !.paths = h.paths, !.rots = h.rots]
    /\ pc' = "elastic"
    /\ UNCHANGED <<cfg, data, seg, rng, patch_size, dist, data_result, seg_result, sample_id,
                   err, ret, first, unit>>

\* lines 308-312
Elastic ==
    /\ pc = "elastic"
    /\ LET st == ElasticStep(cfg, coords, rng)
       IN  /\ coords' = st.coords
           /\ rng' = st.rng
           /\ modified_coords' = (modified_coords \/ st.ran)
           /\ h' = [h EXCEPT !.draws = @ \o st.draws]
    /\ pc' = "rotation"
    /\ UNCHANGED <<cfg, data, seg, patch_size, dist, data_result, seg_result, sample_id,
                   err, ret, first, unit>>

\* lines 318-335
Rotation ==
    /\ pc = "rotation"
    /\ LET st == RotationStep(cfg, coords, Dim, rng)
       IN  /\ coords' = st.coords
           /\ rng' = st.rng
           /\ modified_coords' = (modified_coords \/ st.ran)
           /\ h' = [h EXCEPT !.draws = @ \o st.draws, !.rotated = st.ran,
                             !.applied = st.applied]
           /\ IF st.err # "none" THEN Raise(st.err) ELSE pc' = "scale" /\ UNCHANGED err
    /\ UNCHANGED <<cfg, data, seg, patch_size, dist, data_result, seg_result, sample_id,
                   ret, first, unit>>

\* the scale step without its modified_coords = True
ScaleUnmarked ==
    /\ pc = "scale"
    /\ LET st == ScaleStep(cfg, coords, rng)
       IN  /\ coords' = st.coords
           /\ rng' = st.rng
           /\ h' = [h EXCEPT !.draws = @ \o st.draws, !.sc = st.sc]
    /\ pc' = "place"
    /\ UNCHANGED <<cfg, data, seg, patch_size, dist, data_result, seg_result, sample_id,
                   modified_coords, err, ret, first, unit>>

\* lines 337-343
Scale ==
    /\ pc = "scale"
    /\ LET st == ScaleStep(cfg, coords, rng)
       IN  /\ coords' = st.coords
           /\ rng' = st.rng
           /\ modified_coords' = (modified_coords \/ st.ran)
           /\ h' = [h EXCEPT !.draws = @ \o st.draws, !.sc = st.sc]
    /\ pc' = "place"
    /\ UNCHANGED <<cfg, data, seg, patch_size, dist, data_result, seg_result, sample_id,
                   err, ret, first, unit>>

\* lines 346-361: the mesh was modified
Resample ==
    /\ pc = "place"
    /\ modified_coords
    /\ LET st == ResampleStep(cfg, coords, Dim, data, seg, dist, sample_id,
                              Drop(data_result.shape, 2), rng)
       IN  IF st.err # "none"
           THEN Raise(st.err) /\ UNCHANGED <<coords, rng, data_result, seg_result, h>>
           ELSE /\ pc' = "peaks"
                /\ coords' = st.coords
                /\ rng' = st.rng
                /\ data_result' = SetAt(data_result, <<sample_id>>, st.d)
                /\ seg_result' = IF IsNone(seg) THEN seg_result
                                 ELSE SetAt(seg_result, <<sample_id>>, st.s)
                /\ h' = [h EXCEPT !.draws = @ \o st.draws, !.path = "resample",
                                  !.fields = st.fields, !.recentred = TRUE]
                /\ UNCHANGED err
    /\ UNCHANGED <<cfg, data, seg, patch_size, dist, sample_id, modified_coords, ret,
                   first, unit>>

\* lines 362-374: the mesh was not modified
Crop ==
    /\ pc = "place"
    /\ ~modified_coords
    /\ LET st == CropStep(cfg, patch_size, Dim, data, seg, dist, sample_id,
                          Drop(data_result.shape, 1), rng)
       IN  IF st.err # "none"
           THEN Raise(st.err) /\ UNCHANGED <<rng, data_result, seg_result, h>>
           ELSE /\ pc' = "peaks"
                /\ rng' = st.rng
                /\ data_result' = SetAt(data_result, <<sample_id>>, st.d)
                /\ seg_result' = IF IsNone(seg) THEN seg_result
                                 ELSE SetAt(seg_result, <<sample_id>>, st.s)
                /\ h' = [h EXCEPT !.draws = @ \o st.draws, !.path = "crop", !.lbs = st.lbs]
                /\ UNCHANGED err
    /\ UNCHANGED <<cfg, data, seg, patch_size, dist, sample_id, coords, modified_coords,
                   ret, first, unit>>

\* lines 376-378, and the loop's next round
PeakCorrect ==
    /\ pc = "peaks"
    /\ LET st == PeakStep(data_result, sample_id, h)
       IN  /\ data_result' = st.res
           /\ h' = [h EXCEPT !.corrected = TRUE, !.peak = st.peak, !.paths = Append(@, h.path),
                             !.rots = Append(@, h.rotated)]
           /\ IF st.err # "none"
              THEN Raise(st.err) /\ UNCHANGED sample_id
              ELSE pc' = "mesh" /\ sample_id' = sample_id + 1 /\ UNCHANGED err
    /\ UNCHANGED <<cfg, data, seg, rng, patch_size, dist, seg_result, coords,
                   modified_coords, ret, first, unit>>

\* a return that also writes the result over the input batch
ReturnOverInput ==
    /\ pc = "mesh"
    /\ sample_id >= data.shape[1]
    /\ ret' = [data |-> data_result, seg |-> IF IsNone(seg) THEN seg ELSE seg_result]
    /\ data' = data_result
    /\ pc' = "done"
    /\ UNCHANGED <<cfg, seg, rng, patch_size, dist, data_result, seg_result, sample_id,
                   coords, modified_coords, err, h, first, unit>>

\* line 380, and lines 485-489 of the adapter
Return ==
    /\ pc = "mesh"
    /\ sample_id >= data.shape[1]
    /\ ret' = [data |-> data_result, seg |-> IF IsNone(seg) THEN seg ELSE seg_result]
    /\ pc' = "done"
    /\ UNCHANGED <<cfg, data, seg, rng, patch_size, dist, data_result, seg_result, sample_id,
                   coords, modified_coords, err, h, first, unit>>

\* -------------------------------------- augment_linear_downsampling_scipy

\* one unit of zoom_range is 1e-6, the epsilon of line 205
Micro == FP * FP

\* line 205: zoom_range[1] += 1e-6
ZoomUpper(zoom_range) == zoom_range[2] + 1

\* the check of line 206 with > in the place of >=
ZoomRangeRaisesAbove(zoom_range) == zoom_range[1] > ZoomUpper(zoom_range)

\* line 206
ZoomRangeRaises(zoom_range) == zoom_range[1] >= ZoomUpper(zoom_range)

\* line 212: round(random.uniform(lo, hi), 2), z the state of Python's random
ZoomOf(zoom_range, z) ==
    LET u == zoom_range[1] + ((ZoomUpper(zoom_range) - zoom_range[1]) * RngU(z)) \div FP
    IN  RDiv(u, 10 * FP) * 10

\* line 217: round(1. / zoom, 2)
ZoomReverse(z) == RDiv(100 * FP, z) * 10

\* lines 220-236: img_up cut to the extents of img, and padded with 0 up to them
CutPad(img_up, shape) ==
    Arr(shape,
        LAMBDA p :
          IF \A d \in 1 .. Len(shape) : p[d] < img_up.shape[d] THEN Get(img_up, p) ELSE 0)

\* lines 214-236 for one channel
DownUp(img, z) == CutPad(zoom(zoom(img, z, 1), ZoomReverse(z), 0), img.shape)

\* lines 214-238: the channels of sample s, each written back in place
DownSampleOf(dat, s, z) ==
    SetAt(dat, <<s>>,
          Stack(Tail(dat.shape),
                Eager([k \in 1 .. dat.shape[2] |-> DownUp(At(dat, <<s, k - 1>>), z)])))

\* ResampleTransformLegacy.__call__ (line 190): the transform is called on a batch
CallDown(dat, zoom_range, z) ==
    /\ pc = "idle"
    /\ data' = dat
    /\ unit' = [NoUnit EXCEPT !.op = "downsample", !.arg = dat, !.zoom_range = zoom_range,
                              !.rnd = z]
    /\ pc' = "ds_check"
    /\ UNCHANGED <<cfg, seg, rng, patch_size, dist, data_result, seg_result, sample_id,
                   coords, modified_coords, err, ret, h, first>>

\* lines 204-209
DownCheck ==
    /\ pc = "ds_check"
    /\ IF ZoomRangeRaises(unit.zoom_range)
       THEN pc' = "ds_raised" /\ err' = "ValueError(zoom_range)"
       ELSE pc' = "ds_loop" /\ UNCHANGED err
    /\ sample_id' = 0
    /\ UNCHANGED <<cfg, data, seg, rng, patch_size, dist, data_result, seg_result,
                   coords, modified_coords, ret, h, first, unit>>

\* lines 210-240: one round of the loop over the samples
DownSample ==
    /\ pc = "ds_loop"
    /\ sample_id < data.shape[1]
    /\ unit' = [unit EXCEPT !.rnd = RngNext(@)]
    /\ IF data.shape[2] > 0 /\ Len(data.shape) - 2 \notin {2, 3}
       THEN pc' = "ds_raised" /\ err' = "ValueError(dimension)" /\ UNCHANGED <<data, sample_id>>
       ELSE /\ data' = DownSampleOf(data, sample_id, ZoomOf(unit.zoom_range, unit.rnd))
            /\ sample_id' = sample_id + 1
            /\ UNCHANGED <<pc, err>>
    /\ UNCHANGED <<cfg, seg, rng, patch_size, dist, data_result, seg_result,
                   coords, modified_coords, ret, h, first>>

\* line 242
DownReturn ==
    /\ pc = "ds_loop"
    /\ sample_id >= data.shape[1]
    /\ ret' = [data |-> data, seg |-> None]
    /\ pc' = "ds_done"
    /\ UNCHANGED <<cfg, data, seg, rng, patch_size, dist, data_result, seg_result, sample_id,
                   coords, modified_coords, err, h, first, unit>>

\* the caller of a test repeats a finished call that had do_rotation set and the
\* angle ranges (0, 0): same batch, same options but do_rotation, and the random
\* source put back to the state the first call started in
Replay ==
    /\ pc = "done"
    /\ ~first.on
    /\ cfg.do_rotation
    /\ cfg.angle_x = <<0, 0>> /\ cfg.angle_y = <<0, 0>> /\ cfg.angle_z = <<0, 0>>
    /\ first' = [first EXCEPT !.on = TRUE, !.data = ret.data, !.seg = ret.seg,
                              !.paths = h.paths, !.rots = h.rots]
    /\ cfg' = [cfg EXCEPT !.do_rotation = FALSE]
    /\ rng' = first.seed
    /\ pc' = "alloc"
    /\ h' = NoHistory
    /\ ret' = [data |-> None, seg |-> None]
    /\ data_result' = None
    /\ seg_result' = None
    /\ coords' = None
    /\ modified_coords' = FALSE
    /\ sample_id' = 0
    /\ UNCHANGED <<data, seg, patch_size, dist, err, unit>>

\* the caller moves on: the call's frame is gone, the random source stays
Finish ==
    /\ pc \in {"done", "raised", "unit", "ds_done", "ds_raised"}
    /\ pc' = "idle"
    /\ cfg' = DefaultCfg
    /\ data' = None
    /\ seg' = None
    /\ patch_size' = <<>>
    /\ dist' = <<>>
    /\ data_result' = None
    /\ seg_result' = None
    /\ sample_id' = 0
    /\ coords' = None
    /\ modified_coords' = FALSE
    /\ err' = "none"
    /\ ret' = [data |-> None, seg |-> None]
    /\ h' = NoHistory
    /\ first' = NoFirst
    /\ unit' = NoUnit
    /\ UNCHANGED rng

\* ---------------------------------------------------- the calls explored

\* how data and seg are resampled: the options of lines 283-284
MainProfile ==
    [with_seg |-> TRUE, order_seg |-> 0, border_mode_seg |-> "constant", border_cval_seg |-> 0,
     order_data |-> 1, border_mode_data |-> "nearest", border_cval_data |-> 0]

Profiles ==
    {MainProfile,
     [with_seg |-> FALSE, order_seg |-> 0, border_mode_seg |-> "constant", border_cval_seg |-> 0,
      order_data |-> 1, border_mode_data |-> "nearest", border_cval_data |-> 0],
     [with_seg |-> TRUE, order_seg |-> 0, border_mode_seg |-> "nearest", border_cval_seg |-> 0,
      order_data |-> 1, border_mode_data |-> "nearest", border_cval_data |-> 0],
     [with_seg |-> TRUE, order_seg |-> 1, border_mode_seg |-> "constant", border_cval_seg |-> 7 * FP,
      order_data |-> 0, border_mode_data |-> "constant", border_cval_data |-> 0]}

\* which effects are switched on, and the ranges they draw from
Effects ==
    {[el |-> FALSE, ro |-> FALSE, angle |-> <<0, 2 * PiMilli>>, sc |-> FALSE, scale |-> <<750, 1250>>],
     [el |-> TRUE,  ro |-> FALSE, angle |-> <<0, 2 * PiMilli>>, sc |-> FALSE, scale |-> <<750, 1250>>],
     [el |-> FALSE, ro |-> TRUE,  angle |-> <<0, 2 * PiMilli>>, sc |-> FALSE, scale |-> <<750, 1250>>],
     [el |-> FALSE, ro |-> FALSE, angle |-> <<0, 2 * PiMilli>>, sc |-> TRUE,  scale |-> <<750, 1250>>],
     [el |-> FALSE, ro |-> FALSE, angle |-> <<0, 2 * PiMilli>>, sc |-> TRUE,  scale |-> <<500, 800>>],
     [el |-> FALSE, ro |-> FALSE, angle |-> <<0, 2 * PiMilli>>, sc |-> TRUE,  scale |-> <<1200, 1500>>],
     [el |-> TRUE,  ro |-> TRUE,  angle |-> <<0, 2 * PiMilli>>, sc |-> TRUE,  scale |-> <<750, 1250>>]}

\* centre crop with the default distance, random crop close to the border
Placements ==
    {[random_crop |-> FALSE, d |-> 30], [random_crop |-> TRUE, d |-> 1]}

\* spatial extents of the input and the patch cut from it
Shapes ==
    {[spatial |-> <<3, 3>>, patch |-> <<2, 2>>],
     [spatial |-> <<2, 3>>, patch |-> <<3, 2>>],
     [spatial |-> <<2, 2, 2>>, patch |-> <<1, 2, 2>>]}

\* input batches differ by a pattern number
Patterns == {0, 1}

MakeCfg(patch, none, ef, pl, pr, prob) ==
    [DefaultCfg EXCEPT
       !.patch_size = patch, !.patch_size_is_None = none,
       !.patch_center_dist_from_border = pl.d, !.random_crop = pl.random_crop,
       !.do_elastic_deform = ef.el,
       !.do_rotation = ef.ro, !.angle_x = ef.angle, !.angle_y = ef.angle, !.angle_z = ef.angle,
       !.do_scale = ef.sc, !.scale = ef.scale,
       !.border_mode_data = pr.border_mode_data, !.border_cval_data = pr.border_cval_data,
       !.order_data = pr.order_data,
       !.border_mode_seg = pr.border_mode_seg, !.border_cval_seg = pr.border_cval_seg,
       !.order_seg = pr.order_seg,
       !.p_el_per_sample = prob, !.p_scale_per_sample = prob, !.p_rot_per_sample = prob]

MakeData(spatial, channels, pattern) == GenData(pattern, <<MaxSamples, channels>> \o spatial)

MakeSeg(spatial, pr, pattern) ==
    IF pr.with_seg THEN GenSeg(pattern, <<MaxSamples, 1>> \o spatial) ELSE None

\* the first profile is explored with every effect and pattern, the others with
\* no effect and with all of them
Explored(ef, pr, pattern) ==
    \/ pr = MainProfile
    \/ pattern = 0 /\ (ef.el = ef.ro) /\ (ef.ro = ef.sc)

\* a call of the transform on a batch of three peak groups, its options drawn from
\* the sets above; each effect runs for a sample with probability one half
Call ==
    \E sh \in Shapes, ef \in Effects, pl \in Placements, pr \in Profiles, pattern \in Patterns :
       /\ Explored(ef, pr, pattern)
       /\ CallOf(MakeCfg(sh.patch, FALSE, ef, pl, pr, FP \div 2),
                 MakeData(sh.spatial, 9, pattern), MakeSeg(sh.spatial, pr, pattern))

\* the effects of a call that rotates by the angle ranges (0, 0)
ZeroEffects ==
    {[el |-> FALSE, ro |-> TRUE, angle |-> <<0, 0>>, sc |-> FALSE, scale |-> <<750, 1250>>],
     [el |-> FALSE, ro |-> TRUE, angle |-> <<0, 0>>, sc |-> TRUE,  scale |-> <<750, 1250>>],
     [el |-> TRUE,  ro |-> TRUE, angle |-> <<0, 0>>, sc |-> FALSE, scale |-> <<750, 1250>>]}

\* a call with do_rotation set and nothing to rotate by
CallZero ==
    \E sh \in Shapes, ef \in ZeroEffects, pl \in Placements :
       CallOf(MakeCfg(sh.patch, FALSE, ef, pl, MainProfile, FP \div 2),
              MakeData(sh.spatial, 9, 0), MakeSeg(sh.spatial, MainProfile, 0))

\* the angles rotate_peaks_all is called with on its own
UnitAngles == {<<0, 0, 0>>, <<1 * FP, 0, 0>>, <<500, PiMilli \div 2, 250>>}

\* rotate_peaks_all called on its own on an array of 3 * G channels
PeaksUnit ==
    /\ pc = "idle"
    /\ \E G \in 1 .. MaxGroups, pattern \in Patterns, ang \in UnitAngles :
          LET arg == GenData(pattern, <<3 * G, 1, 2>>)
          IN  unit' = IF PeaksRaise(arg)
                      THEN [NoUnit EXCEPT !.op = "rotate_peaks_all", !.arg = arg, !.angles = ang,
                                          !.err = "ValueError"]
                      ELSE [NoUnit EXCEPT !.op = "rotate_peaks_all", !.arg = arg, !.angles = ang,
                                          !.out = rotate_peaks_all(arg, ang[1], ang[2], ang[3])]
    /\ pc' = "unit"
    /\ UNCHANGED <<cfg, data, seg, rng, patch_size, dist, data_result, seg_result, sample_id,
                   coords, modified_coords, err, ret, h, first>>

\* zoom ranges in units of 1e-6: proper ones, one of equal bounds, one whose lower
\* bound is the upper bound plus 1e-6, one in the wrong order
ZoomRanges ==
    {<<Micro \div 2, Micro>>, <<Micro \div 2, Micro \div 2>>, <<Micro, Micro>>,
     <<Micro + 1, Micro>>, <<Micro, Micro \div 2>>}

\* a call of the downsampling transform; Python's random, which nothing else here
\* draws from, is in any of its states
Downsample ==
    \E spatial \in {<<2, 2>>, <<2, 1, 2>>, <<3>>}, pattern \in Patterns, zr \in ZoomRanges,
       z \in 0 .. (RngMod - 1) :
       CallDown(GenData(pattern, <<MaxSamples, 1>> \o spatial), zr, z)

\* patch sizes of a rank other than 2 and 3, and inputs with as many spatial axes
Ranks ==
    {[spatial |-> <<3>>, patch |-> <<2>>],
     [spatial |-> <<2, 1, 1, 1>>, patch |-> <<1, 1, 1, 1>>]}

\* a call with a patch size of rank 1 or 4, or with none (the adapter then takes
\* the data's spatial shape); every enabled effect runs
CallRank ==
    \E rk \in Ranks, ef \in Effects, none \in BOOLEAN :
       CallOf(MakeCfg(rk.patch, none, ef, [random_crop |-> FALSE, d |-> 30], MainProfile, FP),
              MakeData(rk.spatial, 9, 0), MakeSeg(rk.spatial, MainProfile, 0))

Next ==
    \/ Call
    \/ CallRank
    \/ CallZero
    \/ Replay
    \/ PeaksUnit
    \/ Downsample
    \/ DownCheck
    \/ DownSample
    \/ DownReturn
    \/ Alloc
    \/ BuildMesh
    \/ Elastic
    \/ Rotation
    \/ Scale
    \/ Resample
    \/ Crop
    \/ PeakCorrect
    \/ Return
    \/ Finish

Spec == Init /\ [][Next]_vars

\* ---------------------------------------------------------------- claims

\* a call of augment_spatial has returned
Returned == pc = "done"

\* the centre crop of a batch a to the patch size
CenterCropOf(a, patch) ==
    Window(a, get_lbs_for_center_crop(patch, Drop(a.shape, 2)), patch)

\* no effect is enabled and the crop is centred
FastPath(c) == ~c.do_elastic_deform /\ ~c.do_rotation /\ ~c.do_scale /\ ~c.random_crop

\* C1: with the three effects disabled and random_crop False, the data returned is
\* the centre crop of the input data to patch_size, and the seg returned the centre
\* crop of the input seg
C1_FastPathIsCenterCrop ==
    (Returned /\ FastPath(cfg) /\ Len(patch_size) \in {2, 3}) =>
        /\ ret.data = CenterCropOf(data, patch_size)
        /\ IsNone(seg) \/ ret.seg = CenterCropOf(seg, patch_size)

\* C1, the part that holds: the seg returned on the fast path is the centre crop
C1_FastPathSegIsCenterCrop ==
    /\ Returned /\ FastPath(cfg) /\ Len(patch_size) \in {2, 3}
    /\ ~IsNone(seg) /\ ret.seg = CenterCropOf(seg, patch_size)

\* the angles the corrector should be called with for the current sample
MeshAngles == IF h.rotated THEN h.applied ELSE <<0, 0, 0>>

\* C2: the angles handed to rotate_peaks_all for a sample are the angles applied
\* to that sample's mesh, and (0, 0, 0) when the rotation step was skipped
C2_CorrectorAnglesAreMeshAngles == h.corrected => h.peak = MeshAngles

\* C2, a sample whose mesh was rotated and whose data went through the corrector
C2_RotatedSampleCorrected == h.corrected /\ h.rotated /\ pc = "mesh"

\* the number of groups of the array rotate_peaks_all was called on
UnitGroups == Head(unit.arg.shape) \div 3

\* C3: for every G >= 1, rotate_peaks_all on 3 * G channels returns, in every
\* group i of 0 .. G - 1, the rotation of the input's group i
C3_EveryGroupRotated ==
    unit.op = "rotate_peaks_all" =>
        /\ unit.err = "none"
        /\ \A i \in 0 .. (UnitGroups - 1) :
              Slice0(unit.out, 3 * i, 3 * i + 3)
                = rotate_peaks(Slice0(unit.arg, 3 * i, 3 * i + 3),
                               unit.angles[1], unit.angles[2], unit.angles[3])

\* C3, the case that works: three groups, each rotated
C3_ThreeGroupsRotated ==
    /\ unit.op = "rotate_peaks_all" /\ UnitGroups = 3 /\ unit.err = "none"
    /\ unit.angles # <<0, 0, 0>>
    /\ \A i \in 0 .. 2 :
          Slice0(unit.out, 3 * i, 3 * i + 3)
            = rotate_peaks(Slice0(unit.arg, 3 * i, 3 * i + 3),
                           unit.angles[1], unit.angles[2], unit.angles[3])

\* C6: a call of augment_spatial with a patch_size of a rank other than 2 and 3
\* never returns a result
C6_BadRankNeverReturns == Returned => Len(patch_size) \in {2, 3}

\* C6, a call with a patch_size of rank 1 that ended in an exception
C6_BadRankRaised == pc = "raised" /\ Len(patch_size) = 1 /\ ~cfg.patch_size_is_None

\* the samples of the running call
Samples == 0 .. (data.shape[1] - 1)

\* C4: a call with a patch_size of rank 2 or 3 returns data of shape
\* (n_samples, n_data_channels, *patch_size), and a seg that is None when the input
\* seg is None and of shape (n_samples, n_seg_channels, *patch_size) otherwise
C4_OutputShapes ==
    (Returned /\ Len(patch_size) \in {2, 3}) =>
        /\ ret.data.shape = <<data.shape[1], data.shape[2]>> \o patch_size
        /\ Len(ret.data.v) = Prod(ret.data.shape)
        /\ IsNone(seg) <=> IsNone(ret.seg)
        /\ ~IsNone(seg) =>
              /\ ret.seg.shape = <<seg.shape[1], seg.shape[2]>> \o patch_size
              /\ Len(ret.seg.v) = Prod(ret.seg.shape)

\* C4, a call that returned a batch with a seg, one sample resampled and one
\* cropped, the patch of another size than the input
C4_BothPathsReturned ==
    /\ Returned /\ ~IsNone(seg)
    /\ \E i, j \in 1 .. Len(h.paths) : h.paths[i] = "resample" /\ h.paths[j] = "crop"
    /\ Drop(data.shape, 2) # patch_size
    /\ ret.data.shape = <<data.shape[1], data.shape[2]>> \o patch_size

\* the labels of sample s of a seg batch
LabelsOf(a, s) == Unique(At(a, <<s>>))

\* the values a sample's seg may hold besides the labels of its input: the border
\* value on the resample path under the border mode "constant", the padding 0 on the
\* crop path
FillLabels(c, path) ==
    IF path = "resample" THEN (IF c.border_mode_seg = "constant" THEN {c.border_cval_seg} ELSE {})
    ELSE {0}

\* C5 as stated: with order_seg = 0 every value of a sample's seg_out occurs in that
\* sample's input seg, on both paths
C5_NoNewLabels ==
    (Returned /\ cfg.order_seg = 0 /\ ~IsNone(seg)) =>
        \A s \in Samples : LabelsOf(ret.seg, s) \subseteq LabelsOf(seg, s)

\* C5: with order_seg = 0 every value of a sample's seg_out occurs in that sample's
\* input seg or is the fill value of the sample's path: border_cval_seg on the
\* resample path under border_mode_seg "constant", 0 on the crop path
C5_NoNewLabelsButFill ==
    (Returned /\ cfg.order_seg = 0 /\ ~IsNone(seg)) =>
        \A s \in Samples :
           LabelsOf(ret.seg, s) \subseteq (LabelsOf(seg, s) \cup FillLabels(cfg, h.paths[s + 1]))

\* C5, a returned seg resampled with order 0 through a deformed mesh, its labels
\* those of the input and the border value
C5_ResampledLabels ==
    /\ Returned /\ cfg.order_seg = 0 /\ ~IsNone(seg) /\ h.paths[1] = "resample"
    /\ cfg.border_mode_seg = "constant"
    /\ cfg.border_cval_seg \in LabelsOf(ret.seg, 0) \ LabelsOf(seg, 0)
    /\ LabelsOf(ret.seg, 0) \cap LabelsOf(seg, 0) # {}

\* C7: augment_linear_downsampling_scipy raises the ValueError of its range check
\* exactly when the lower bound of zoom_range is not below the upper bound plus
\* 1e-6, and the data batch is then as it was handed in
C7_ZoomRangeError ==
    (unit.op = "downsample" /\ pc # "ds_check") =>
        /\ (err = "ValueError(zoom_range)") <=> ~(unit.zoom_range[1] < unit.zoom_range[2] + 1)
        /\ err = "ValueError(zoom_range)" => data = unit.arg

\* C7, both sides of the bound: a call that raised with the lower bound exactly
\* 1e-6 above the upper one
C7_RaisedAtTheBound ==
    /\ unit.op = "downsample" /\ pc = "ds_raised" /\ err = "ValueError(zoom_range)"
    /\ unit.zoom_range[1] = unit.zoom_range[2] + 1
    /\ data = unit.arg

NoDuplicates(s) == \A i, j \in 1 .. Len(s) : i # j => s[i] # s[j]

\* C8: for the sample just placed, no parameter was drawn twice; on the resample
\* path one coordinate field resampled every data and seg channel, on the crop path
\* one window cut data and seg
C8_OneGeometryPerSample ==
    pc = "peaks" =>
        /\ NoDuplicates(h.draws)
        /\ h.path = "resample" =>
              \E f \in h.fields :
                 /\ h.fields = {f}
                 /\ At(data_result, <<sample_id>>)
                      = ResampleAll(data, sample_id, f, Drop(data_result.shape, 2), DataPolicy(cfg))
                 /\ IsNone(seg) \/
                    At(seg_result, <<sample_id>>)
                      = ResampleAll(seg, sample_id, f, Drop(seg_result.shape, 2), SegPolicy(cfg))
        /\ h.path = "crop" =>
              \E l \in h.lbs :
                 /\ h.lbs = {l}
                 /\ At(data_result, <<sample_id>>)
                      = At(Window(Slice0(data, sample_id, sample_id + 1), l, patch_size), <<0>>)
                 /\ IsNone(seg) \/
                    At(seg_result, <<sample_id>>)
                      = At(Window(Slice0(seg, sample_id, sample_id + 1), l, patch_size), <<0>>)

\* C8, a sample with a seg resampled after all three effects ran, each drawn once
C8_AllEffectsOnce ==
    /\ pc = "peaks" /\ h.path = "resample" /\ ~IsNone(seg)
    /\ Len(h.draws) >= 6 /\ NoDuplicates(h.draws)
    /\ Cardinality(h.fields) = 1

\* C9 as stated: the call with do_rotation set and the angle ranges (0, 0) returns
\* the data the call without rotation returns
C9_ZeroRotationSameOutput == (Returned /\ first.on) => ret.data = first.data

\* C9: the call with do_rotation set and the angle ranges (0, 0) returns the data
\* and seg of the call without rotation whenever every sample takes the same path
\* (resample or crop) in both calls
C9_ZeroRotationSameOutputOnSamePaths ==
    (Returned /\ first.on /\ h.paths = first.paths) =>
        ret.data = first.data /\ ret.seg = first.seg

\* C9, two such calls in which a sample was rotated by zero in the first and
\* resampled in both
C9_RotatedByZeroAndEqual ==
    /\ Returned /\ first.on /\ h.paths = first.paths
    /\ \E i \in 1 .. Len(first.rots) : first.rots[i]
    /\ ret.data = first.data

\* a call of augment_spatial is under way
InCall == pc \in {"alloc", "mesh", "elastic", "rotation", "scale", "place", "peaks", "done", "raised"}

\* nothing of a call is left
CallFrameGone ==
    /\ cfg = DefaultCfg /\ IsNone(data) /\ IsNone(seg) /\ patch_size = <<>> /\ dist = <<>>
    /\ IsNone(data_result) /\ IsNone(seg_result) /\ IsNone(coords) /\ sample_id = 0
    /\ ~modified_coords /\ err = "none" /\ IsNone(ret.data) /\ IsNone(ret.seg)
    /\ h = NoHistory /\ first = NoFirst /\ unit = NoUnit

\* C10: from its start to its end a call of augment_spatial leaves the input data
\* and seg as they are, and between two calls nothing is left of a call but the
\* state of the random source
C10_Pure ==
    /\ [][InCall /\ InCall' => data' = data /\ seg' = seg]_vars
    /\ [](pc = "idle" => CallFrameGone)

\* C10, a call that returned a result other than its input, the input as handed in
C10_ReturnedInputIntact ==
    /\ Returned /\ ~IsNone(seg) /\ ~first.on
    /\ data = MakeData(Drop(data.shape, 2), 9, 0)
    /\ ret.data # data

\* an effect ran for the current sample: it is enabled and its draw fell below its
\* probability
ElasticRan == cfg.do_elastic_deform /\ \E i \in 1 .. Len(h.draws) : h.draws[i][1] = "a"

RotationRan == cfg.do_rotation /\ h.rotated

ScaleRan == cfg.do_scale /\ h.sc # <<>>

EffectRan == ElasticRan \/ RotationRan \/ ScaleRan

\* the centres the mesh may be moved to along axis d (1-based): any point of
\* [dist, extent - dist] when the crop is random, the rounded middle otherwise
CentreOk(d, ctr) ==
    LET extent == data.shape[d + 2] * FP
    IN  IF cfg.random_crop
        THEN ctr >= Min(dist[d] * FP, extent - dist[d] * FP)
             /\ ctr <= Max(dist[d] * FP, extent - dist[d] * FP)
        ELSE ctr % FP = 0 /\ 2 * ctr >= extent - FP /\ 2 * ctr <= extent + FP

\* the step that places a sample moved every axis of the mesh by one centre
RecentredEveryAxis ==
    LET P == Prod(patch_size)
    IN  /\ coords'.shape = coords.shape
        /\ \A d \in 1 .. Dim :
              LET ctr == coords'.v[(d - 1) * P + 1] - coords.v[(d - 1) * P + 1]
              IN  /\ CentreOk(d, ctr)
                  /\ \A k \in 1 .. P :
                        coords'.v[(d - 1) * P + k] = coords.v[(d - 1) * P + k] + ctr

\* the lower bounds the crop path cuts at: random within the margin
\* patch_center_dist_from_border[d] - patch_size[d] // 2, centred otherwise
CropPathLbs ==
    IF cfg.random_crop
    THEN get_lbs_for_random_crop(patch_size, Drop(data.shape, 2),
                                 [d \in 1 .. Dim |-> dist[d] - patch_size[d] \div 2], rng)
    ELSE get_lbs_for_center_crop(patch_size, Drop(data.shape, 2))

\* C11: for every sample exactly one path runs: the resample path if and only if
\* an enabled effect passed its draw, the mesh then moved to a centre along every
\* axis and every channel resampled through the moved mesh; the crop path
\* otherwise, at random within the margin or centred, and nothing resampled
C11_OnePathPerSample ==
    /\ [](pc = "peaks" =>
            /\ h.path \in {"resample", "crop"}
            /\ (h.path = "resample") <=> EffectRan
            /\ h.path = "resample" => h.lbs = {} /\ h.fields = {coords}
            /\ h.path = "crop" => h.fields = {} /\ Cardinality(h.lbs) = 1)
    /\ [][(pc = "place" /\ pc' = "peaks") =>
            IF h'.path = "resample"
            THEN RecentredEveryAxis
            ELSE /\ coords' = coords
                 /\ h'.lbs = {CropPathLbs}
                 /\ At(data_result', <<sample_id>>)
                      = At(Window(Slice0(data, sample_id, sample_id + 1), CropPathLbs,
                                  patch_size), <<0>>)]_vars

\* C11, a call whose first sample was cropped and whose second, its scale step
\* alone having run, was resampled about a random centre
C11_CroppedThenResampled ==
    /\ pc = "peaks" /\ h.paths = <<"crop">> /\ h.path = "resample"
    /\ ScaleRan /\ ~ElasticRan /\ ~RotationRan
    /\ cfg.random_crop /\ h.recentred

\* C12: whenever the scale step ran for a sample, the factor it drew lies within
\* the configured range, scale[0] <= sc <= scale[1], for every range with
\* scale[0] <= scale[1], those entirely below 1 and entirely above 1 included
C12_ScaleFactorInRange ==
    (pc \in {"place", "peaks"} /\ ScaleRan /\ cfg.scale[1] <= cfg.scale[2]) =>
        cfg.scale[1] <= h.sc[1] /\ h.sc[1] <= cfg.scale[2]

\* C12, the ranges that work: a factor drawn within a range entirely above 1,
\* after one drawn within a range that straddles 1 would also do
C12_AboveOneInRange ==
    /\ pc = "place" /\ ScaleRan /\ cfg.scale[1] > FP
    /\ cfg.scale[1] <= h.sc[1] /\ h.sc[1] <= cfg.scale[2]

====
